---- MODULE Spec2Model ----
(***************************************************************************)
(* Model of bin/Spellman.py: the Tango device class Spellman and its       *)
(* transport SpellmanEthernetInterface.                                    *)
(*                                                                         *)
(* Physical values (kV, mA) are counted in integer ticks.  The ranges are  *)
(* whole multiples of both resolutions, so the five scaling factors and    *)
(* every quotient and product the handlers compute are exact.              *)
(*                                                                         *)
(* A handler runs from its call up to the blocking recv of receive(), and  *)
(* from the return of that recv up to the next recv or to its end.  The    *)
(* controller at the other end of the socket and the byte stream between   *)
(* the two are the environment: the controller answers each frame with one *)
(* line, and recv hands over any non-empty prefix of the bytes that have   *)
(* arrived, as a TCP stream does.                                          *)
(***************************************************************************)
EXTENDS Integers, Sequences, FiniteSets, TLC

VARIABLES
    state,       \* DevState of the device: "INIT", "ON" or "OFF"
    proc,        \* the server process: "starting", "serving" or "exited"
    connection,  \* self.connection: "none" or "connected"
    self,        \* the attributes init_device has assigned: name -> value
    wire,        \* per request thread: the frames its running handler has written
    inbuf,       \* bytes of the controller not yet taken by recv, in order
    pc,          \* per request thread: "idle" or "receive" (blocked in recv)
    call,        \* per request thread: the handler it is in
    outcome,     \* per request thread: how its last handler ended
    hwAck        \* per channel: quantized value of the last set frame the
                 \* controller answered with OK (0 before any)

vars == <<state, proc, connection, self, wire, inbuf, pc, call, outcome, hwAck>>

----------------------------------------------------------------------------
(* Bounds of the model *)

\* codes of the DAC (device property dac_resolution, 256 by default)
dac_resolution == 4

\* bytes that may wait in the socket when a handler is called
MaxBuf == 2

\* bits of the significand of a float (53 in Python)
MantissaBits == 6

\* full ranges a device is configured with, in float arithmetic
MaxRanges == 6

\* resolutions a conversion is made with, in float arithmetic
MaxResolution == 13

----------------------------------------------------------------------------
(* Configuration: the device properties *)

adc_resolution == 2 * dac_resolution

voltage_range == 2 * dac_resolution

current_range == 4 * dac_resolution

filament_current_range == 3 * adc_resolution

\* size of one recv
RecvSize == 1024

LF == "\n"

----------------------------------------------------------------------------
(* Texts *)

OK == <<"O", "K">>

OpenStatus == <<"o", "p", "e", "n", LF>>

Digits == {"0", "1", "2", "3", "4", "5", "6", "7", "8", "9"}

DigitValue(c) ==
    CASE c = "0" -> 0 [] c = "1" -> 1 [] c = "2" -> 2 [] c = "3" -> 3
      [] c = "4" -> 4 [] c = "5" -> 5 [] c = "6" -> 6 [] c = "7" -> 7
      [] c = "8" -> 8 [] c = "9" -> 9

\* float(text) succeeds on the decimal numerals among the texts of the model
IsNumber(text) == text # <<>> /\ \A i \in 1..Len(text) : text[i] \in Digits

RECURSIVE float(_)
float(text) ==
    IF text = <<>> THEN 0
    ELSE 10 * float(SubSeq(text, 1, Len(text) - 1)) + DigitValue(text[Len(text)])

----------------------------------------------------------------------------
(* SpellmanEthernetInterface *)

\* index of the first LF of data, 0 when there is none
RECURSIVE FirstLF(_, _)
FirstLF(data, i) ==
    IF i > Len(data) THEN 0
    ELSE IF data[i] = LF THEN i
    ELSE FirstLF(data, i + 1)

\* receive(), given what recv returned: the text before the first LF, or the
\* exception of the else branch (SocketError is no name of the module, so the
\* raise statement raises NameError)
receive(data) ==
    IF FirstLF(data, 1) # 0
    THEN [exc |-> "none", response |-> SubSeq(data, 1, FirstLF(data, 1) - 1)]
    ELSE [exc |-> "NameError", response |-> <<>>]

\* a frame: the mnemonic and, for a set frame, the code printed after it
Command(mnemonic, arg) == [mnemonic |-> mnemonic, arg |-> arg]

----------------------------------------------------------------------------
(* The controller and the socket: the environment of the program *)

FAIL == <<"F", "A", "I", "L">>

SetMnemonics == {":V", ":C"}

\* the lines the controller may answer a frame with
Replies(frame) ==
    CASE frame.mnemonic \in SetMnemonics \cup {":ON", ":OFF"} ->
             {OK, FAIL, <<"o", "k">>, <<>>}
      [] frame.mnemonic \in {":V?", ":C?", ":FIL?"} ->
             {<<"1", "2">>, <<"x">>}
      [] frame.mnemonic = ":ILOCK?" ->
             {<<"o", "p", "e", "n">>, <<"o", "f", "f">>}
      [] OTHER -> {<<"S">>}

\* what the controller takes a set frame to mean, in ticks
Quantized(frame) ==
    IF frame.mnemonic = ":V"
    THEN frame.arg[1] * (voltage_range \div dac_resolution)
    ELSE frame.arg[1] * (current_range \div dac_resolution)

\* send(mnemonic) on thread t, which has written the frames sent and found the
\* bytes buf waiting: the frame, terminated, is written to the socket.  The
\* controller answers it with one terminated line, which joins the waiting bytes.
send(t, sent, buf, frame) ==
    /\ wire' = [wire EXCEPT ![t] = Append(sent, frame)]
    /\ \E reply \in Replies(frame) :
          /\ inbuf' = buf \o reply \o <<LF>>
          /\ hwAck' = IF frame.mnemonic \in SetMnemonics /\ reply = OK
                      THEN [hwAck EXCEPT ![frame.mnemonic] = Quantized(frame)]
                      ELSE hwAck

Min(a, b) == IF a < b THEN a ELSE b

\* the sizes of what a blocking recv(RecvSize) may return
RecvLengths == 1..Min(Len(inbuf), RecvSize)

----------------------------------------------------------------------------
(* How a handler goes on *)

IdleCall == [name |-> "none", stage |-> "none", request |-> 0, setpoint |-> 0]

\* no handler has run yet
NoOutcome ==
    [name |-> "none", status |-> "none", exc |-> "none", ret |-> <<>>, value |-> 0,
     report |-> "none"]

\* the exceptions that carry the attribute message
DACErrors == {"VoltageExceededError", "CurrentExceededError"}

\* the handlers that wrap their operation in try ... except Exception as ex
AttributeWrites == {"set_voltage", "set_current"}

\* what becomes of the exception exc in the handler name: the two attribute
\* writes catch it and log ex.message, which only a DACError has, so that for any
\* other exception the except clause itself raises AttributeError; every other
\* handler lets it pass to its caller
ReportOf(name, exc) ==
    IF name \in AttributeWrites
    THEN IF exc \in DACErrors THEN "logged" ELSE "AttributeError"
    ELSE "propagated"

\* the operation of the handler of thread t ends with the exception exc
Raise(t, name, exc) ==
    /\ outcome' = [outcome EXCEPT ![t] =
                       [name |-> name, status |-> "raised", exc |-> exc, ret |-> <<>>, value |-> 0,
                        report |-> ReportOf(name, exc)]]
    /\ pc' = [pc EXCEPT ![t] = "idle"]
    /\ call' = [call EXCEPT ![t] = IdleCall]
    /\ wire' = [wire EXCEPT ![t] = <<>>]

\* the handler of thread t returns the text ret, or the number value
Return(t, name, ret, value) ==
    /\ outcome' = [outcome EXCEPT ![t] =
                       [name |-> name, status |-> "returned", exc |-> "none", ret |-> ret,
                        value |-> value, report |-> "none"]]
    /\ pc' = [pc EXCEPT ![t] = "idle"]
    /\ call' = [call EXCEPT ![t] = IdleCall]
    /\ wire' = [wire EXCEPT ![t] = <<>>]

\* the handler of thread t has sent a frame and blocks in recv
Await(t, name, stage, request, setpoint) ==
    /\ outcome' = [outcome EXCEPT ![t] =
                       [name |-> name, status |-> "running", exc |-> "none", ret |-> <<>>, value |-> 0,
                        report |-> "none"]]
    /\ pc' = [pc EXCEPT ![t] = "receive"]
    /\ call' = [call EXCEPT ![t] = [name |-> name, stage |-> stage, request |-> request, setpoint |-> setpoint]]

\* a handler may be called on thread t
Callable(t) ==
    /\ proc = "serving"
    /\ pc[t] = "idle"
    /\ Len(inbuf) <= MaxBuf

\* thread t is blocked in the recv of the given stage
Receiving(t, stage) ==
    /\ pc[t] = "receive"
    /\ call[t].stage = stage

----------------------------------------------------------------------------
(* Spellman *)

\* the quotient cut towards zero, as int() cuts it
value_to_code_truncated(value, set_factor) ==
    IF value < 0 THEN -((-value) \div set_factor) ELSE value \div set_factor

\* math.floor(value / set_factor)
value_to_code(value, set_factor) == value \div set_factor

\* the comparison with "OK", made without regard to case
AcknowledgedAnyCase(response) == response \in {OK, <<"o", "k">>}

\* response == "OK"
Acknowledged(response) == response = OK

\* DacRange with the upper end included
DacRangeInclusive == 0..dac_resolution

\* the DAC codes, range(0, self.dac_resolution)
DacRange == 0..(dac_resolution - 1)

\* set_voltage up to its recv: the range check, the frame
set_voltage(t, name, sent, buf, voltage) ==
    LET dac_value == value_to_code(voltage, self["_voltage_set_factor"]) IN
    IF dac_value \in DacRange
    THEN /\ send(t, sent, buf, Command(":V", <<dac_value>>))
         /\ Await(t, name, "V", voltage, dac_value * self["_voltage_set_factor"])
    ELSE /\ Raise(t, name, "VoltageExceededError")
         /\ inbuf' = buf
         /\ UNCHANGED hwAck

\* set_current up to its recv: the range check, the frame
set_current(t, name, sent, buf, current) ==
    LET dac_value == value_to_code(current, self["_current_set_factor"]) IN
    IF dac_value \in DacRange
    THEN /\ send(t, sent, buf, Command(":C", <<dac_value>>))
         /\ Await(t, name, "C", current, dac_value * self["_current_set_factor"])
    ELSE /\ Raise(t, name, "CurrentExceededError")
         /\ inbuf' = buf
         /\ UNCHANGED hwAck

\* the values a client may write to the voltage setpoint: below zero, zero,
\* between two codes, the highest code, the full range, above the range
VoltageRequests ==
    {-1, 0, (voltage_range \div dac_resolution) + 1, voltage_range - 1,
     voltage_range, voltage_range + (voltage_range \div dac_resolution) + 1}

CurrentRequests ==
    {-1, 0, (current_range \div dac_resolution) + 1, current_range - 1,
     current_range, current_range + (current_range \div dac_resolution) + 1}

\* write of value to the attribute voltage_setpoint
write_voltage_setpoint(t, value) ==
    /\ Callable(t)
    /\ set_voltage(t, "set_voltage", <<>>, inbuf, value)
    /\ UNCHANGED <<state, proc, connection, self>>

voltage_setpoint_write(t) == \E value \in VoltageRequests : write_voltage_setpoint(t, value)

\* write of value to the attribute current_setpoint
write_current_setpoint(t, value) ==
    /\ Callable(t)
    /\ set_current(t, "set_current", <<>>, inbuf, value)
    /\ UNCHANGED <<state, proc, connection, self>>

current_setpoint_write(t) == \E value \in CurrentRequests : write_current_setpoint(t, value)

\* enable without the two set calls: ":ON" at once
enable_unzeroed(t) ==
    /\ Callable(t)
    /\ send(t, <<>>, inbuf, Command(":ON", <<>>))
    /\ Await(t, "enable", "raw", 0, 0)
    /\ UNCHANGED <<state, proc, connection, self>>

\* command enable up to its first recv, in set_voltage(0.0)
enable(t) ==
    /\ Callable(t)
    /\ set_voltage(t, "enable", <<>>, inbuf, 0)
    /\ UNCHANGED <<state, proc, connection, self>>

\* what recv returns when it returns n bytes
Recv(n) == SubSeq(inbuf, 1, n)

\* what recv leaves waiting when it returns n bytes
Rest(n) == SubSeq(inbuf, n + 1, Len(inbuf))

\* the handler of thread t ends without another frame
Ends(n) == inbuf' = Rest(n) /\ UNCHANGED hwAck

\* set_voltage_received with enable going on to set_current(0.0) whatever the
\* response to ":V 0" is
set_voltage_received_lenient(t, n) ==
    /\ Receiving(t, "V")
    /\ LET r == receive(Recv(n)) IN
       IF r.exc # "none"
       THEN Raise(t, call[t].name, r.exc) /\ Ends(n) /\ UNCHANGED self
       ELSE IF call[t].name = "enable"
       THEN /\ self' = IF Acknowledged(r.response)
                       THEN [self EXCEPT !["_voltage_setpoint"] = call[t].setpoint]
                       ELSE self
            /\ set_current(t, "enable", wire[t], Rest(n), 0)
       ELSE IF Acknowledged(r.response)
       THEN /\ self' = [self EXCEPT !["_voltage_setpoint"] = call[t].setpoint]
            /\ Return(t, call[t].name, <<>>, 0) /\ Ends(n)
       ELSE Raise(t, call[t].name, "ValueError") /\ Ends(n) /\ UNCHANGED self
    /\ UNCHANGED <<state, proc, connection>>

\* set_voltage from its recv on; in enable, on to the recv of set_current(0.0)
set_voltage_received(t, n) ==
    /\ Receiving(t, "V")
    /\ LET r == receive(Recv(n)) IN
       IF r.exc # "none"
       THEN Raise(t, call[t].name, r.exc) /\ Ends(n) /\ UNCHANGED self
       ELSE IF Acknowledged(r.response)
       THEN /\ self' = [self EXCEPT !["_voltage_setpoint"] = call[t].setpoint]
            /\ IF call[t].name = "enable"
               THEN set_current(t, "enable", wire[t], Rest(n), 0)
               ELSE Return(t, call[t].name, <<>>, 0) /\ Ends(n)
       ELSE Raise(t, call[t].name, "ValueError") /\ Ends(n) /\ UNCHANGED self
    /\ UNCHANGED <<state, proc, connection>>

set_voltage_receive(t) == \E n \in RecvLengths : set_voltage_received(t, n)

\* set_current_received storing the requested value in place of the setpoint
set_current_received_unquantized(t, n) ==
    /\ Receiving(t, "C")
    /\ LET r == receive(Recv(n)) IN
       IF r.exc # "none"
       THEN Raise(t, call[t].name, r.exc) /\ Ends(n) /\ UNCHANGED self
       ELSE IF Acknowledged(r.response)
       THEN /\ self' = [self EXCEPT !["_current_setpoint"] = call[t].request]
            /\ IF call[t].name = "enable"
               THEN /\ send(t, wire[t], Rest(n), Command(":ON", <<>>))
                    /\ Await(t, "enable", "raw", 0, 0)
               ELSE Return(t, call[t].name, <<>>, 0) /\ Ends(n)
       ELSE Raise(t, call[t].name, "ValueError") /\ Ends(n) /\ UNCHANGED self
    /\ UNCHANGED <<state, proc, connection>>

\* set_current from its recv on; in enable, on to the recv after ":ON"
set_current_received(t, n) ==
    /\ Receiving(t, "C")
    /\ LET r == receive(Recv(n)) IN
       IF r.exc # "none"
       THEN Raise(t, call[t].name, r.exc) /\ Ends(n) /\ UNCHANGED self
       ELSE IF Acknowledged(r.response)
       THEN /\ self' = [self EXCEPT !["_current_setpoint"] = call[t].setpoint]
            /\ IF call[t].name = "enable"
               THEN /\ send(t, wire[t], Rest(n), Command(":ON", <<>>))
                    /\ Await(t, "enable", "raw", 0, 0)
               ELSE Return(t, call[t].name, <<>>, 0) /\ Ends(n)
       ELSE Raise(t, call[t].name, "ValueError") /\ Ends(n) /\ UNCHANGED self
    /\ UNCHANGED <<state, proc, connection>>

set_current_receive(t) == \E n \in RecvLengths : set_current_received(t, n)

\* a handler that sends one frame and then blocks in recv
Query(t, name, stage, mnemonic) ==
    /\ Callable(t)
    /\ send(t, <<>>, inbuf, Command(mnemonic, <<>>))
    /\ Await(t, name, stage, 0, 0)
    /\ UNCHANGED <<state, proc, connection, self>>

\* read of the attribute voltage, up to its recv
voltage(t) == Query(t, "voltage", "float", ":V?")

\* read of the attribute current, up to its recv
current(t) == Query(t, "current", "float", ":C?")

\* read of the attribute filament, up to its recv
filament(t) == Query(t, "filament", "float", ":FIL?")

\* interlock with a set frame ":V 0" ahead of its query
interlock_zeroing(t) ==
    /\ Callable(t)
    /\ send(t, <<Command(":V", <<0>>)>>, inbuf, Command(":ILOCK?", <<>>))
    /\ Await(t, "interlock", "interlock", 0, 0)
    /\ UNCHANGED <<state, proc, connection, self>>

\* read of the attribute interlock, up to its recv
interlock(t) == Query(t, "interlock", "interlock", ":ILOCK?")

\* command disable, up to its recv
disable(t) == Query(t, "disable", "raw", ":OFF")

\* command IDN, up to its recv
IDN(t) == Query(t, "IDN", "raw", "*IDN?")

\* the factor of the DAC in place of the get factor
get_factor_dac(name) ==
    CASE name = "voltage" -> self["_voltage_set_factor"]
      [] name = "current" -> self["_current_set_factor"]
      [] OTHER -> filament_current_range \div dac_resolution

\* the get factor a readback multiplies by
get_factor(name) ==
    CASE name = "voltage" -> self["_voltage_get_factor"]
      [] name = "current" -> self["_current_get_factor"]
      [] OTHER -> self["_filament_current_get_factor"]

\* voltage, current and filament from their recv on
readback_received(t, n) ==
    /\ Receiving(t, "float")
    /\ LET r == receive(Recv(n)) IN
       /\ Ends(n)
       /\ IF r.exc # "none"
          THEN Raise(t, call[t].name, r.exc)
          ELSE IF IsNumber(r.response)
          THEN Return(t, call[t].name, <<>>, float(r.response) * get_factor(call[t].name))
          ELSE Raise(t, call[t].name, "ValueError")
    /\ UNCHANGED <<state, proc, connection, self>>

readback_receive(t) == \E n \in RecvLengths : readback_received(t, n)

\* interlock from its recv on
interlock_received(t, n) ==
    /\ Receiving(t, "interlock")
    /\ LET r == receive(Recv(n)) IN
       /\ Ends(n)
       /\ IF r.exc # "none"
          THEN /\ Raise(t, call[t].name, r.exc)
               /\ UNCHANGED self
          ELSE /\ self' = IF r.response = OpenStatus
                          THEN [self EXCEPT !["_current_setpoint"] = 0,
                                            !["_voltage_setpoint"] = 0]
                          ELSE self
               /\ Return(t, call[t].name, r.response, 0)
    /\ UNCHANGED <<state, proc, connection>>

interlock_receive(t) == \E n \in RecvLengths : interlock_received(t, n)

\* raw_received with disable resetting both stored setpoints
raw_received_resetting(t, n) ==
    /\ Receiving(t, "raw")
    /\ LET r == receive(Recv(n)) IN
       /\ Ends(n)
       /\ IF r.exc # "none"
          THEN Raise(t, call[t].name, r.exc)
          ELSE Return(t, call[t].name, r.response, 0)
    /\ self' = IF call[t].name = "disable"
               THEN [self EXCEPT !["_current_setpoint"] = 0, !["_voltage_setpoint"] = 0]
               ELSE self
    /\ UNCHANGED <<state, proc, connection>>

\* enable after ":ON", disable and IDN from their recv on
raw_received(t, n) ==
    /\ Receiving(t, "raw")
    /\ LET r == receive(Recv(n)) IN
       /\ Ends(n)
       /\ IF r.exc # "none"
          THEN Raise(t, call[t].name, r.exc)
          ELSE Return(t, call[t].name, r.response, 0)
    /\ UNCHANGED <<state, proc, connection, self>>

raw_receive(t) == \E n \in RecvLengths : raw_received(t, n)

\* the attributes init_device assigns once the connection stands
Attributes ==
    [a \in {"_voltage_set_factor", "_voltage_get_factor", "_current_set_factor",
            "_current_get_factor", "_filament_current_get_factor",
            "_current_setpoint", "_voltage_setpoint"} |->
        CASE a = "_voltage_set_factor" -> voltage_range \div dac_resolution
          [] a = "_voltage_get_factor" -> voltage_range \div adc_resolution
          [] a = "_current_set_factor" -> current_range \div dac_resolution
          [] a = "_current_get_factor" -> current_range \div adc_resolution
          [] a = "_filament_current_get_factor" -> filament_current_range \div adc_resolution
          [] OTHER -> 0]

\* init_device without set_state(DevState.ON): the device serves in state INIT
init_device_unready ==
    /\ proc = "starting"
    /\ \E connected \in BOOLEAN :
          IF connected
          THEN /\ connection' = "connected"
               /\ self' = Attributes
               /\ proc' = "serving"
               /\ UNCHANGED state
          ELSE /\ state' = "OFF"
               /\ proc' = "exited"
               /\ UNCHANGED <<connection, self>>
    /\ UNCHANGED <<wire, inbuf, pc, call, outcome, hwAck>>

\* init_device with set_state(DevState.ON) ahead of the connection attempt
init_device_on_first ==
    /\ proc = "starting"
    /\ state' = "ON"
    /\ \E connected \in BOOLEAN :
          IF connected
          THEN /\ connection' = "connected"
               /\ self' = Attributes
               /\ proc' = "serving"
          ELSE /\ proc' = "exited"
               /\ UNCHANGED <<connection, self>>
    /\ UNCHANGED <<wire, inbuf, pc, call, outcome, hwAck>>

\* init_device: the connection is established, or the process exits
init_device ==
    /\ proc = "starting"
    /\ \E connected \in BOOLEAN :
          IF connected
          THEN /\ connection' = "connected"
               /\ self' = Attributes
               /\ state' = "ON"
               /\ proc' = "serving"
          ELSE /\ state' = "OFF"
               /\ proc' = "exited"
               /\ UNCHANGED <<connection, self>>
    /\ UNCHANGED <<wire, inbuf, pc, call, outcome, hwAck>>

----------------------------------------------------------------------------
(* Float arithmetic: set_voltage as Python computes it.  A float is <<m, e>>,  *)
(* the number m * 2^e with a significand m of MantissaBits bits, or <<0, 0>>;  *)
(* every operation rounds its exact result to the nearest float, ties to the   *)
(* even significand.                                                           *)

RECURSIVE Pow2(_)
Pow2(n) == IF n = 0 THEN 1 ELSE 2 * Pow2(n - 1)

\* n / d rounded to the nearest integer, ties to even
RoundDiv(n, d) ==
    LET q == n \div d
        r == n % d
    IN  IF 2 * r > d \/ (2 * r = d /\ q % 2 = 1) THEN q + 1 ELSE q

\* the float nearest to (n / d) * 2^e, for n >= 0 and d > 0
RECURSIVE Fl(_, _, _)
Fl(n, d, e) ==
    IF n = 0 THEN <<0, 0>>
    ELSE IF n >= d * Pow2(MantissaBits) THEN Fl(n, 2 * d, e + 1)
    ELSE IF n < d * Pow2(MantissaBits - 1) THEN Fl(2 * n, d, e - 1)
    ELSE IF RoundDiv(n, d) = Pow2(MantissaBits) THEN <<Pow2(MantissaBits - 1), e + 1>>
    ELSE <<RoundDiv(n, d), e>>

\* a / b
fdiv(a, b) == Fl(a[1], b[1], a[2] - b[2])

\* a * b
fmul(a, b) == Fl(a[1] * b[1], 1, a[2] + b[2])

\* 1.0 * i
from_int(i) == Fl(i, 1, 0)

\* math.floor(a)
ffloor(a) == IF a[2] >= 0 THEN a[1] * Pow2(a[2]) ELSE a[1] \div Pow2(-a[2])

\* the floats with an exponent in lo..hi
Floats(lo, hi) == (Pow2(MantissaBits - 1)..(Pow2(MantissaBits) - 1)) \X (lo..hi)

\* the full ranges a device may be configured with
FloatRanges ==
    {r \in Floats(0, 0) : r[1] < Pow2(MantissaBits - 1) + MaxRanges}

\* the values a client may write
FloatRequests == Floats(-2, 0) \cup {<<0, 0>>}

\* init_device, the voltage channel in floats
init_device_float ==
    /\ proc = "starting"
    /\ connection' = "connected"
    /\ self' = [a \in {"voltage_range", "_voltage_set_factor", "_voltage_setpoint"} |->
                  CASE a = "voltage_range" -> self["voltage_range"]
                    [] a = "_voltage_set_factor" ->
                           fdiv(fmul(from_int(1), self["voltage_range"]),
                                from_int(dac_resolution))
                    [] OTHER -> <<0, 0>>]
    /\ state' = "ON"
    /\ proc' = "serving"
    /\ UNCHANGED <<wire, inbuf, pc, call, outcome, hwAck>>

\* math.floor(value / set_factor), in floats
value_to_code_float(value, set_factor) == ffloor(fdiv(value, set_factor))

\* 1.0 * dac_value * set_factor, in floats
code_to_value_float(dac_value, set_factor) ==
    fmul(fmul(from_int(1), from_int(dac_value)), set_factor)

\* set_voltage up to its recv, in floats
set_voltage_float(t, name, sent, buf, value) ==
    LET dac_value == value_to_code_float(value, self["_voltage_set_factor"]) IN
    IF dac_value \in DacRange
    THEN /\ send(t, sent, buf, Command(":V", <<dac_value>>))
         /\ Await(t, name, "V", value,
                  code_to_value_float(dac_value, self["_voltage_set_factor"]))
    ELSE /\ Raise(t, name, "VoltageExceededError")
         /\ inbuf' = buf
         /\ UNCHANGED hwAck

\* write of a float to the attribute voltage_setpoint
voltage_setpoint_write_float(t) ==
    /\ Callable(t)
    /\ \E value \in FloatRequests : set_voltage_float(t, "set_voltage", <<>>, inbuf, value)
    /\ UNCHANGED <<state, proc, connection, self>>

\* the resolutions a conversion may be made with
Resolutions == 1..MaxResolution

\* set_voltage up to the setpoint it would store, for the range and resolution
\* in self: the code of the value, the range check, the value of the code
set_voltage_setpoint(t) ==
    /\ pc[t] = "idle"
    /\ outcome[t] = NoOutcome
    /\ \E value \in FloatRequests :
          LET set_factor == fdiv(fmul(from_int(1), self["voltage_range"]),
                                 from_int(self["dac_resolution"]))
              dac_value == value_to_code_float(value, set_factor)
          IN  IF dac_value \in 0..(self["dac_resolution"] - 1)
              THEN /\ call' = [call EXCEPT ![t] =
                                  [name |-> "set_voltage", stage |-> "setpoint",
                                   request |-> value,
                                   setpoint |-> code_to_value_float(dac_value, set_factor)]]
                   /\ outcome' = [outcome EXCEPT ![t] =
                                     [name |-> "set_voltage", status |-> "running",
                                      exc |-> "none", ret |-> <<>>, value |-> dac_value,
                                      report |-> "none"]]
              ELSE /\ call' = [call EXCEPT ![t] = IdleCall]
                   /\ outcome' = [outcome EXCEPT ![t] =
                                     [name |-> "set_voltage", status |-> "raised",
                                      exc |-> "VoltageExceededError", ret |-> <<>>,
                                      value |-> 0,
                                      report |-> ReportOf("set_voltage", "VoltageExceededError")]]
    /\ UNCHANGED <<state, proc, connection, self, wire, inbuf, pc, hwAck>>

----------------------------------------------------------------------------
(* Specifications *)

\* set_state(DevState.INIT) has run; init_device has not yet connected
InitOf(threads) ==
    /\ state = "INIT"
    /\ proc = "starting"
    /\ connection = "none"
    /\ self = <<>>
    /\ wire = [t \in threads |-> <<>>]
    /\ inbuf = <<>>
    /\ pc = [t \in threads |-> "idle"]
    /\ call = [t \in threads |-> IdleCall]
    /\ outcome = [t \in threads |-> NoOutcome]
    /\ hwAck = [m \in SetMnemonics |-> 0]

Threads == DOMAIN pc

Next ==
    \/ init_device
    \/ \E t \in Threads : voltage_setpoint_write(t)
    \/ \E t \in Threads : current_setpoint_write(t)
    \/ \E t \in Threads : enable(t)
    \/ \E t \in Threads : set_voltage_receive(t)
    \/ \E t \in Threads : set_current_receive(t)
    \/ \E t \in Threads : voltage(t)
    \/ \E t \in Threads : current(t)
    \/ \E t \in Threads : filament(t)
    \/ \E t \in Threads : interlock(t)
    \/ \E t \in Threads : disable(t)
    \/ \E t \in Threads : IDN(t)
    \/ \E t \in Threads : readback_receive(t)
    \/ \E t \in Threads : interlock_receive(t)
    \/ \E t \in Threads : raw_receive(t)

\* requests are served one at a time
Init == InitOf({1})

Spec == Init /\ [][Next]_vars

\* two requests, readbacks of voltage and current, are dispatched at once
InitConcurrent == InitOf({1, 2})

NextConcurrent ==
    \/ init_device
    \/ \E t \in Threads : voltage(t)
    \/ \E t \in Threads : current(t)
    \/ \E t \in Threads : readback_receive(t)

SpecConcurrent == InitConcurrent /\ [][NextConcurrent]_vars

\* the voltage setpoint in float arithmetic, for every full range
InitFloat ==
    /\ state = "INIT"
    /\ proc = "starting"
    /\ connection = "none"
    /\ \E range \in FloatRanges : self = [a \in {"voltage_range"} |-> range]
    /\ wire = [t \in {1} |-> <<>>]
    /\ inbuf = <<>>
    /\ pc = [t \in {1} |-> "idle"]
    /\ call = [t \in {1} |-> IdleCall]
    /\ outcome = [t \in {1} |-> NoOutcome]
    /\ hwAck = [m \in SetMnemonics |-> 0]

NextFloat ==
    \/ init_device_float
    \/ \E t \in Threads : voltage_setpoint_write_float(t)
    \/ \E t \in Threads : set_voltage_receive(t)

SpecFloat == InitFloat /\ [][NextFloat]_vars

\* the two conversions of set_voltage in float arithmetic, for every full range
\* and every resolution
InitRoundTrip ==
    /\ state = "INIT"
    /\ proc = "starting"
    /\ connection = "none"
    /\ \E range \in FloatRanges : \E resolution \in Resolutions :
          self = [a \in {"voltage_range", "dac_resolution"} |->
                     IF a = "voltage_range" THEN range ELSE resolution]
    /\ wire = [t \in {1} |-> <<>>]
    /\ inbuf = <<>>
    /\ pc = [t \in {1} |-> "idle"]
    /\ call = [t \in {1} |-> IdleCall]
    /\ outcome = [t \in {1} |-> NoOutcome]
    /\ hwAck = [m \in SetMnemonics |-> 0]

NextRoundTrip == \E t \in Threads : set_voltage_setpoint(t)

SpecRoundTrip == InitRoundTrip /\ [][NextRoundTrip]_vars

----------------------------------------------------------------------------
(* Claims *)

Serving == proc = "serving"

Idle == \A t \in Threads : pc[t] = "idle"

IsSetFrame(frame) == frame.mnemonic \in SetMnemonics

\* C1: every set frame ":V <code>" or ":C <code>" written to the connection, by a
\* setpoint write or by enable, carries a code with 0 <= code < dac_resolution.
C1_SetFrameCodeInRange ==
    \A t \in Threads : \A i \in 1..Len(wire[t]) :
        IsSetFrame(wire[t][i]) =>
            /\ 0 <= wire[t][i].arg[1]
            /\ wire[t][i].arg[1] < dac_resolution

\* C1 witness: a set frame with the highest code is on the wire in a write of
\* the value one tick below the full range.
C1_Witness ==
    \E t \in Threads :
        /\ wire[t] = <<Command(":V", <<dac_resolution - 1>>)>>
        /\ call[t].request = voltage_range - 1

\* C2: whenever no handler is running, each stored setpoint is 0 or the quantized
\* value of the last set frame of its channel that the controller answered with OK.
C2_SetpointIsLastAcknowledged ==
    (Serving /\ Idle) =>
        /\ self["_voltage_setpoint"] \in {0, hwAck[":V"]}
        /\ self["_current_setpoint"] \in {0, hwAck[":C"]}

\* the code of value lies outside [0, dac_resolution)
OutOfRange(value, range) ==
    \/ value \div (range \div dac_resolution) < 0
    \/ value \div (range \div dac_resolution) >= dac_resolution

\* the handler of thread t ends in this step with the exception exc, sends no
\* frame and leaves the stored setpoints as they were
FailsUnsent(t, exc) ==
    /\ outcome'[t].status = "raised"
    /\ outcome'[t].exc = exc
    /\ pc'[t] = "idle"
    /\ wire' = wire
    /\ inbuf' = inbuf
    /\ hwAck' = hwAck
    /\ self' = self

\* C3: a write of a value whose code is < 0 or >= dac_resolution fails with
\* VoltageExceededError (voltage) or CurrentExceededError (current), sends no
\* frame and leaves both stored setpoints unchanged.
C3_RangeErrorSendsNothing ==
    [][\A t \in Threads :
          /\ \A v \in VoltageRequests :
                (OutOfRange(v, voltage_range) /\ write_voltage_setpoint(t, v))
                    => FailsUnsent(t, "VoltageExceededError")
          /\ \A v \in CurrentRequests :
                (OutOfRange(v, current_range) /\ write_current_setpoint(t, v))
                    => FailsUnsent(t, "CurrentExceededError")]_vars

\* C3 witness: a voltage write has failed with the range error while a setpoint
\* other than 0 is stored.
C3_Witness ==
    \E t \in Threads :
        /\ outcome[t].exc = "VoltageExceededError"
        /\ inbuf = <<>>
        /\ self["_voltage_setpoint"] # 0

\* receive returns, from the n bytes recv hands over, a text other than "OK"
ReadsOtherThanOK(n) ==
    /\ receive(Recv(n)).exc = "none"
    /\ receive(Recv(n)).response # OK

\* the handler of thread t ends in this step with ValueError and leaves the
\* stored setpoints as they were
FailsUnexpected(t) ==
    /\ outcome'[t].status = "raised"
    /\ outcome'[t].exc = "ValueError"
    /\ pc'[t] = "idle"
    /\ self' = self

\* C4: when the response read for a set frame is any text other than "OK", the
\* set operation fails with ValueError and the stored setpoints keep their values.
C4_UnexpectedResponseKeepsSetpoint ==
    [][\A t \in Threads : \A n \in RecvLengths :
          /\ (set_voltage_received(t, n) /\ ReadsOtherThanOK(n)) => FailsUnexpected(t)
          /\ (set_current_received(t, n) /\ ReadsOtherThanOK(n)) => FailsUnexpected(t)]_vars

\* C4 witness: set_current has failed with ValueError while a current setpoint
\* other than 0 is stored.
C4_Witness ==
    \E t \in Threads :
        /\ outcome[t].name = "set_current"
        /\ outcome[t].exc = "ValueError"
        /\ self["_current_setpoint"] # 0

\* C6: when an interlock read returns the open status the controller sent, both
\* stored setpoints are 0.
C6_OpenInterlockZeroesSetpoints ==
    \A t \in Threads :
        (/\ outcome[t].name = "interlock"
         /\ outcome[t].status = "returned"
         /\ outcome[t].ret = <<"o", "p", "e", "n">>)
            => /\ self["_voltage_setpoint"] = 0
               /\ self["_current_setpoint"] = 0

\* the frames enable writes, in their order
EnableFrames == <<Command(":V", <<0>>), Command(":C", <<0>>), Command(":ON", <<>>)>>

\* thread t writes, in this step, its k-th frame
Writes(t, k) == Len(wire[t]) = k - 1 /\ Len(wire'[t]) = k

\* the response thread t reads in this step is the text "OK"
ReadsOK(t) ==
    \E n \in RecvLengths :
        /\ receive(Recv(n)) = [exc |-> "none", response |-> OK]
        /\ Len(inbuf') >= Len(Rest(n))
        /\ SubSeq(inbuf', 1, Len(Rest(n))) = Rest(n)

\* C7: in enable, ":C 0" is written only when the response read after ":V 0" is
\* "OK", and ":ON" only when also the response read after ":C 0" is "OK"; while
\* ":ON" is on the wire both stored setpoints are 0; enable returns the text
\* receive gives for the response read after ":ON".
C7_EnableOrder ==
    /\ [](\A t \in Threads :
            (call[t].name = "enable" /\ pc[t] = "receive") =>
                /\ wire[t] = SubSeq(EnableFrames, 1, Len(wire[t]))
                /\ Len(wire[t]) = 3 =>
                      /\ self["_voltage_setpoint"] = 0
                      /\ self["_current_setpoint"] = 0)
    /\ [][\A t \in Threads :
            (call[t].name = "enable" /\ pc[t] = "receive") =>
                /\ Writes(t, 2) => (call[t].stage = "V" /\ ReadsOK(t)
                                      /\ self'["_voltage_setpoint"] = 0)
                /\ Writes(t, 3) => (call[t].stage = "C" /\ ReadsOK(t)
                                      /\ self'["_current_setpoint"] = 0)
                /\ (Len(wire[t]) = 3 /\ outcome'[t].status = "returned") =>
                      \E n \in RecvLengths :
                          /\ inbuf' = Rest(n)
                          /\ outcome'[t].ret = receive(Recv(n)).response]_vars

\* C7 witness: enable has returned the text "OK" read after ":ON", and the
\* controller has acknowledged both ":V 0" and ":C 0".
C7_Witness ==
    \E t \in Threads :
        /\ outcome[t].name = "enable"
        /\ outcome[t].status = "returned"
        /\ outcome[t].ret = OK
        /\ hwAck = [m \in SetMnemonics |-> 0]
        /\ self["_voltage_setpoint"] = 0
        /\ self["_current_setpoint"] = 0

\* data holds the byte c
Has(data, c) == \E i \in 1..Len(data) : data[i] = c

\* receive on data is right: SocketError and no text when data holds no LF,
\* else the bytes before the first LF
ReceivesRight(data) ==
    IF Has(data, LF)
    THEN /\ receive(data).exc = "none"
         /\ ~Has(receive(data).response, LF)
         /\ Len(data) > Len(receive(data).response)
         /\ SubSeq(data, 1, Len(receive(data).response) + 1) = receive(data).response \o <<LF>>
    ELSE /\ receive(data).exc = "SocketError"
         /\ receive(data).response = <<>>

\* C8: whatever recv hands over, receive fails with the protocol error
\* (SocketError) and gives no text when the data holds no LF, and gives exactly
\* the bytes before the first LF when it holds one.
C8_ReceiveFraming ==
    \A t \in Threads :
        pc[t] = "receive" => \A n \in RecvLengths : ReceivesRight(Recv(n))

\* C9: of two requests dispatched at once, no frame of one is sent between the
\* send and the matching receive of the other: at most one thread is between its
\* send and its receive.
C9_OneExchangeAtATime == Cardinality({t \in Threads : pc[t] = "receive"}) <= 1

AttributeNames ==
    {"_voltage_set_factor", "_voltage_get_factor", "_current_set_factor",
     "_current_get_factor", "_filament_current_get_factor",
     "_current_setpoint", "_voltage_setpoint"}

\* C10: the device state starts as INIT; it is ON only with the connection
\* established and the five factors and two setpoints assigned; it is OFF only
\* with the process exited, no connection and no handler ever run; from INIT it
\* goes to ON when connecting succeeds and to OFF when it fails; once ON or OFF
\* it never changes, whatever a handler does or fails with.
C10_DeviceState ==
    /\ state = "INIT"
    /\ [](state = "INIT" => (proc = "starting" /\ DOMAIN self = {}))
    /\ [](state = "ON" =>
            /\ proc = "serving"
            /\ connection = "connected"
            /\ DOMAIN self = AttributeNames)
    /\ [](state = "OFF" =>
            /\ proc = "exited"
            /\ connection = "none"
            /\ \A t \in Threads : pc[t] = "idle" /\ outcome[t] = NoOutcome)
    /\ [][/\ state = "INIT" => (state' = "ON" <=> connection' = "connected")
          /\ state = "ON" => state' = "ON"
          /\ state = "OFF" => state' = "OFF"]_vars

\* C10 witness: the device is ON after a handler has failed.
C10_Witness ==
    /\ state = "ON"
    /\ \E t \in Threads : outcome[t].status = "raised" /\ outcome[t].exc = "NameError"

\* a > b, for floats
Greater(a, b) ==
    LET lo == Min(a[2], b[2]) IN a[1] * Pow2(a[2] - lo) > b[1] * Pow2(b[2] - lo)

\* C5: a write of v that is acknowledged with "OK" stores
\* floor(v / set_factor) * set_factor, with set_factor = range / dac_resolution,
\* and the stored value is never greater than v.
C5_QuantizationLaw ==
    [][\A t \in Threads : \A n \in RecvLengths :
          (/\ set_voltage_received(t, n)
           /\ call[t].name = "set_voltage"
           /\ receive(Recv(n)) = [exc |-> "none", response |-> OK])
              => /\ self["_voltage_set_factor"] =
                       fdiv(self["voltage_range"], from_int(dac_resolution))
                 /\ self'["_voltage_setpoint"] =
                       fmul(from_int(ffloor(fdiv(call[t].request, self["_voltage_set_factor"]))),
                            self["_voltage_set_factor"])
                 /\ ~Greater(self'["_voltage_setpoint"], call[t].request)]_vars

\* the law of C5 where the ranges are whole multiples of the resolution and the
\* values whole ticks, so that no operation rounds
QuantizationExact ==
    [][\A t \in Threads : \A n \in RecvLengths :
          /\ (/\ set_voltage_received(t, n)
              /\ call[t].name = "set_voltage"
              /\ receive(Recv(n)) = [exc |-> "none", response |-> OK])
                 => /\ self'["_voltage_setpoint"] =
                          (call[t].request \div (voltage_range \div dac_resolution))
                              * (voltage_range \div dac_resolution)
                    /\ self'["_voltage_setpoint"] <= call[t].request
          /\ (/\ set_current_received(t, n)
              /\ call[t].name = "set_current"
              /\ receive(Recv(n)) = [exc |-> "none", response |-> OK])
                 => /\ self'["_current_setpoint"] =
                          (call[t].request \div (current_range \div dac_resolution))
                              * (current_range \div dac_resolution)
                    /\ self'["_current_setpoint"] <= call[t].request]_vars

\* a frame is written to the connection, or bytes are taken from it, in this step
ConnectionUsed == wire' # wire \/ inbuf' # inbuf \/ hwAck' # hwAck

\* C11: no frame is sent and no receive is performed while the device state is
\* INIT: a step that writes a frame or takes bytes from the connection starts and
\* ends in state ON, and a handler is between its send and its receive only in
\* state ON.
C11_NoTrafficBeforeReady ==
    /\ [](\A t \in Threads : (pc[t] = "receive" \/ wire[t] # <<>>) => state = "ON")
    /\ [][ConnectionUsed => (state = "ON" /\ state' = "ON")]_vars

\* C11 witness: in state ON an earlier handler has taken bytes from the
\* connection, and the voltage readback has sent its frame and is blocked in recv.
C11_Witness ==
    \E t \in Threads :
        /\ state = "ON"
        /\ outcome[t].status = "running"
        /\ pc[t] = "receive"
        /\ wire[t] = <<Command(":V?", <<>>)>>
        /\ Len(inbuf) > 3

\* the bytes waiting in the socket are the reply to the last frame thread t has
\* written, and nothing else
AnswersOwn(t) ==
    /\ wire[t] # <<>>
    /\ inbuf \in {reply \o <<LF>> : reply \in Replies(wire[t][Len(wire[t])])}

\* a write of the voltage or current setpoint attribute fails in this step
WriteFails(t) ==
    /\ \/ voltage_setpoint_write(t)
       \/ current_setpoint_write(t)
       \/ set_voltage_receive(t)
       \/ set_current_receive(t)
    /\ outcome'[t].name \in AttributeWrites
    /\ outcome'[t].status = "raised"

\* C12: a write of the voltage or current setpoint attribute that fails, by range
\* error, by a response other than "OK" or by a response without LF, is caught and
\* logged by its handler, the process keeps serving, both stored setpoints keep
\* their values, and none of the reply to the failed write is left in the socket
\* for the next operation to read.
C12_WriteFailureIsHandled ==
    [][\A t \in Threads :
          WriteFails(t) =>
              /\ outcome'[t].report = "logged"
              /\ proc' = "serving"
              /\ self' = self
              /\ AnswersOwn(t) => inbuf' = <<>>]_vars

Readbacks == {"voltage", "current", "filament"}

\* the query frame and the full range of a readback channel
QueryOf(name) ==
    CASE name = "voltage" -> Command(":V?", <<>>)
      [] name = "current" -> Command(":C?", <<>>)
      [] name = "filament" -> Command(":FIL?", <<>>)

RangeOf(name) ==
    CASE name = "voltage" -> voltage_range
      [] name = "current" -> current_range
      [] name = "filament" -> filament_current_range

\* C13: a readback of voltage, current or filament writes exactly its own query
\* frame (":V?", ":C?", ":FIL?"); when the response it reads is a number n it
\* returns n * (range of the channel / adc_resolution); when the response is no
\* number it fails with ValueError and returns no value.
C13_Readback ==
    /\ [](\A t \in Threads :
            (pc[t] = "receive" /\ call[t].name \in Readbacks) =>
                wire[t] = <<QueryOf(call[t].name)>>)
    /\ [][\A t \in Threads : \A n \in RecvLengths :
            (readback_received(t, n) /\ receive(Recv(n)).exc = "none") =>
                IF IsNumber(receive(Recv(n)).response)
                THEN /\ outcome'[t].status = "returned"
                     /\ outcome'[t].value =
                            float(receive(Recv(n)).response)
                                * (RangeOf(call[t].name) \div adc_resolution)
                ELSE /\ outcome'[t].status = "raised"
                     /\ outcome'[t].exc = "ValueError"
                     /\ outcome'[t].value = 0]_vars

\* C13 witness: the filament readback has returned 12 * (range / adc_resolution),
\* which differs from 12 * (range / dac_resolution).
C13_Witness ==
    \E t \in Threads :
        /\ outcome[t].name = "filament"
        /\ outcome[t].status = "returned"
        /\ outcome[t].value = 12 * (filament_current_range \div adc_resolution)
        /\ outcome[t].value # 12 * (filament_current_range \div dac_resolution)

\* resolution * |a - b| <= range, for floats a, b and range
WithinStepOf(a, b, range, resolution) ==
    LET lo == Min(Min(a[2], b[2]), range[2])
        x == a[1] * Pow2(a[2] - lo)
        y == b[1] * Pow2(b[2] - lo)
        r == range[1] * Pow2(range[2] - lo)
    IN  resolution * (IF x > y THEN x - y ELSE y - x) <= r

\* |a - b| <= step, for floats a, b and step
Within(a, b, step) == WithinStepOf(a, b, step, 1)

\* C14: for every range R, resolution N and value x whose code is computed,
\* the value of the code, floor(x / (R/N)) * (R/N), lies at most one code step
\* away from x: within R/N, or within the set factor computed for R/N.
C14_RoundTripWithinOneStep ==
    \A t \in Threads :
        call[t].stage = "setpoint" =>
            \/ WithinStepOf(call[t].setpoint, call[t].request,
                            self["voltage_range"], self["dac_resolution"])
            \/ Within(call[t].setpoint, call[t].request,
                      fdiv(fmul(from_int(1), self["voltage_range"]),
                           from_int(self["dac_resolution"])))

\* C15: an interlock read writes exactly one frame, ":ILOCK?", and no set frame;
\* it performs exactly one receive, after which it ends without another frame,
\* and it returns the text receive gave it.
C15_InterlockExchange ==
    /\ [](\A t \in Threads :
            (pc[t] = "receive" /\ call[t].name = "interlock") =>
                wire[t] = <<Command(":ILOCK?", <<>>)>>)
    /\ [][\A t \in Threads : \A n \in RecvLengths :
            interlock_received(t, n) =>
                /\ pc'[t] = "idle"
                /\ inbuf' = Rest(n)
                /\ hwAck' = hwAck
                /\ receive(Recv(n)).exc = "none" =>
                      /\ outcome'[t].status = "returned"
                      /\ outcome'[t].ret = receive(Recv(n)).response]_vars

\* C15 witness: an interlock read has returned the status text "open".
C15_Witness ==
    \E t \in Threads :
        /\ outcome[t].name = "interlock"
        /\ outcome[t].status = "returned"
        /\ outcome[t].ret = <<"o", "p", "e", "n">>
        /\ inbuf = <<>>

\* thread t reads, in this step, the text "OK" as the response of the set
\* operation of the channel of stage
SetReadsOK(t, stage) ==
    \E n \in RecvLengths :
        /\ receive(Recv(n)) = [exc |-> "none", response |-> OK]
        /\ IF stage = "V" THEN set_voltage_received(t, n) ELSE set_current_received(t, n)

\* thread t reads, in this step, the open status in an interlock read
InterlockReadsOpen(t) ==
    \E n \in RecvLengths :
        /\ receive(Recv(n)).response \in {<<"o", "p", "e", "n">>, OpenStatus}
        /\ interlock_received(t, n)

\* C16: a stored setpoint changes only in a step in which a set operation of its
\* channel reads "OK", or in which an interlock read sees the open status; every
\* other step of every handler leaves it as it is.
C16_SetpointFrame ==
    [][state = "ON" =>
          /\ self'["_voltage_setpoint"] # self["_voltage_setpoint"] =>
                \E t \in Threads : SetReadsOK(t, "V") \/ InterlockReadsOpen(t)
          /\ self'["_current_setpoint"] # self["_current_setpoint"] =>
                \E t \in Threads : SetReadsOK(t, "C") \/ InterlockReadsOpen(t)]_vars

\* C16 witness: disable has returned while both stored setpoints are other than 0.
C16_Witness ==
    \E t \in Threads :
        /\ outcome[t].name = "disable"
        /\ outcome[t].status = "returned"
        /\ self["_voltage_setpoint"] # 0
        /\ self["_current_setpoint"] # 0

\* C17: whenever a handler is about to receive, the bytes waiting in the socket
\* are the controller's reply to the frame this handler has sent last, so that
\* the response it reads is never a part of the reply to an earlier command.
C17_ResponseAnswersOwnCommand ==
    \A t \in Threads : pc[t] = "receive" => AnswersOwn(t)

\* the step of enable that thread t takes with the n bytes of recv fails, sends
\* no further frame and leaves the stored setpoints as they are
EnableStops(t, n) ==
    /\ pc'[t] = "idle"
    /\ outcome'[t].name = "enable"
    /\ outcome'[t].status = "raised"
    /\ inbuf' = Rest(n)
    /\ hwAck' = hwAck
    /\ self' = self

\* C18: when, in enable, the response read after ":V 0" is not "OK" or receive
\* fails, enable fails with ":V 0" its only frame and both stored setpoints
\* unchanged; when the response read after ":C 0" is not "OK" or receive fails,
\* enable fails with ":V 0" and ":C 0" its only frames, the stored voltage
\* setpoint 0 and the stored current setpoint unchanged.
C18_EnableFailsUnenergized ==
    [][\A t \in Threads : \A n \in RecvLengths :
          /\ (/\ set_voltage_received(t, n)
              /\ call[t].name = "enable"
              /\ receive(Recv(n)) # [exc |-> "none", response |-> OK])
                 => /\ EnableStops(t, n)
                    /\ wire[t] = SubSeq(EnableFrames, 1, 1)
          /\ (/\ set_current_received(t, n)
              /\ call[t].name = "enable"
              /\ receive(Recv(n)) # [exc |-> "none", response |-> OK])
                 => /\ EnableStops(t, n)
                    /\ wire[t] = SubSeq(EnableFrames, 1, 2)
                    /\ self'["_voltage_setpoint"] = 0]_vars

\* C18 witness: enable has failed with ValueError while a current setpoint other
\* than 0 is stored and the voltage setpoint is 0.
C18_Witness ==
    \E t \in Threads :
        /\ outcome[t].name = "enable"
        /\ outcome[t].exc = "ValueError"
        /\ self["_voltage_setpoint"] = 0
        /\ self["_current_setpoint"] # 0
        /\ hwAck[":V"] = 0

\* the stored value is code * set_factor for a code of the DAC, and so lies in
\* [0, range)
IsSetpoint(value, set_factor, range) ==
    /\ \E code \in 0..(dac_resolution - 1) : value = code * set_factor
    /\ 0 <= value
    /\ value < range

\* C19: once the device is initialised, each stored setpoint is code * set_factor
\* for an integer code with 0 <= code < dac_resolution; it is never negative and
\* always below the full range of its channel.
C19_SetpointForm ==
    state = "ON" =>
        /\ IsSetpoint(self["_voltage_setpoint"], self["_voltage_set_factor"], voltage_range)
        /\ IsSetpoint(self["_current_setpoint"], self["_current_set_factor"], current_range)

\* C19 witness: the highest setpoint of the voltage channel and a current
\* setpoint other than 0 are stored.
C19_Witness ==
    /\ state = "ON"
    /\ self["_voltage_setpoint"] = (dac_resolution - 1) * self["_voltage_set_factor"]
    /\ self["_current_setpoint"] # 0

====
